---- MODULE Spec2Model ----
(***************************************************************************)
(* Abstract-Analyzer (src/Main.py, src/user_information.py).               *)
(*                                                                         *)
(* Python strings are TLA+ strings; a character is a string of length 1.   *)
(* An attribute that may hold None is a sequence: <<>> is None and <<s>>   *)
(* is the str s.  Every blocking input() call is one step: the action      *)
(* reads one console line and runs the code up to the next input() call.   *)
(***************************************************************************)
EXTENDS Integers, Sequences, FiniteSets, TLC

(***************************************************************************)
(* Python str methods used by the program.                                 *)
(***************************************************************************)
LowerAlpha == "abcdefghijklmnopqrstuvwxyz"
UpperAlpha == "ABCDEFGHIJKLMNOPQRSTUVWXYZ"
Digits == "0123456789"

Ch(s, i) == SubSeq(s, i, i)

CharsOf(s) == {Ch(s, i) : i \in 1..Len(s)}

IndexOf(c, alphabet) == CHOOSE i \in 1..Len(alphabet) : Ch(alphabet, i) = c

LowerChars == CharsOf(LowerAlpha)
UpperChars == CharsOf(UpperAlpha)
Letters == LowerChars \cup UpperChars

upper_char(c) ==
    IF c \in LowerChars THEN Ch(UpperAlpha, IndexOf(c, LowerAlpha)) ELSE c

lower_char(c) ==
    IF c \in UpperChars THEN Ch(LowerAlpha, IndexOf(c, UpperAlpha)) ELSE c

\* str.upper(): every cased character mapped to upper case, the rest kept.
RECURSIVE str_upper(_)
str_upper(s) ==
    IF Len(s) = 0 THEN ""
    ELSE IF Len(s) = 1 THEN upper_char(s)
    ELSE LET h == Len(s) \div 2
         IN  str_upper(SubSeq(s, 1, h)) \o str_upper(SubSeq(s, h + 1, Len(s)))

\* str.lower()
RECURSIVE str_lower(_)
str_lower(s) ==
    IF Len(s) = 0 THEN ""
    ELSE IF Len(s) = 1 THEN lower_char(s)
    ELSE LET h == Len(s) \div 2
         IN  str_lower(SubSeq(s, 1, h)) \o str_lower(SubSeq(s, h + 1, Len(s)))

\* str.replace(" ", ""): every space character removed.
RECURSIVE str_replace_space(_)
str_replace_space(s) ==
    IF Len(s) = 0 THEN ""
    ELSE IF Len(s) = 1 THEN (IF s = " " THEN "" ELSE s)
    ELSE LET h == Len(s) \div 2
         IN  str_replace_space(SubSeq(s, 1, h))
                 \o str_replace_space(SubSeq(s, h + 1, Len(s)))

\* str.isalpha(): at least one character and every character a letter.
str_isalpha(s) ==
    /\ Len(s) > 0
    /\ \A i \in 1..Len(s) : Ch(s, i) \in Letters

\* str.split() without a separator: the pieces between runs of whitespace, empty
\* pieces dropped (not what the program calls).
RECURSIVE str_split_whitespace(_, _)
str_split_whitespace(s, sep) ==
    IF Len(s) = 0 THEN <<>>
    ELSE IF Len(s) = 1 THEN (IF s \in {" ", "\t"} THEN <<>> ELSE <<s>>)
    ELSE LET h == Len(s) \div 2
             l == str_split_whitespace(SubSeq(s, 1, h), sep)
             r == str_split_whitespace(SubSeq(s, h + 1, Len(s)), sep)
             glue == /\ Ch(s, h) \notin {" ", "\t"}
                     /\ Ch(s, h + 1) \notin {" ", "\t"}
         IN  IF glue
             THEN SubSeq(l, 1, Len(l) - 1) \o <<l[Len(l)] \o r[1]>> \o Tail(r)
             ELSE l \o r

\* str.split(sep) for a one-character separator: the list of the pieces
\* between consecutive separators, empty pieces included; "" gives [""].
RECURSIVE str_split(_, _)
str_split(s, sep) ==
    IF Len(s) = 0 THEN <<"">>
    ELSE IF Len(s) = 1 THEN (IF s = sep THEN <<"", "">> ELSE <<s>>)
    ELSE LET h == Len(s) \div 2
             l == str_split(SubSeq(s, 1, h), sep)
             r == str_split(SubSeq(s, h + 1, Len(s)), sep)
         IN  SubSeq(l, 1, Len(l) - 1) \o <<l[Len(l)] \o r[1]>> \o Tail(r)

Whitespace == {" ", "\t"}

None == <<>>
Str(s) == <<s>>

(***************************************************************************)
(* Console input: the lines a user may type at each prompt.                *)
(***************************************************************************)
MinTopicLen == 30
MinAbstractWords == 100
\* The most rejected lines in one run, and how far past a threshold an input goes.
MaxRejects == 1
MaxExtra == 1

RECURSIVE Repeat(_, _)
Repeat(s, n) ==
    IF n <= 0 THEN ""
    ELSE IF n = 1 THEN s
    ELSE Repeat(s, n \div 2) \o Repeat(s, n - (n \div 2))

\* n copies of word w joined by sep
Words(w, sep, n) == IF n <= 0 THEN "" ELSE Repeat(w \o sep, n - 1) \o w

NameInputs == {"", "Jane Doe", "ann", "r2 d2"}

TopicInputs ==
    {"Graphs"} \cup {Repeat("t", n) : n \in MinTopicLen..(MinTopicLen + MaxExtra)}
               \cup {"Graphs \"and\" Trees \\ " \o Repeat("t", MinTopicLen - 19)}

AbstractInputs ==
    {"", Repeat(" ", MinAbstractWords - 1),
     Words("Ab", "  ", (MinAbstractWords \div 2) + 1),
     Words("Ab", "\t", MinAbstractWords + MaxExtra),
     Words("Algorithm Cell", " ", MinAbstractWords \div 2)}
        \cup {Words("Ab", " ", n) :
                 n \in (MinAbstractWords - 1)..(MinAbstractWords + MaxExtra - 1)}

ConfirmInputs == {"yes", "No", "y"}

(***************************************************************************)
(* State.                                                                  *)
(***************************************************************************)
VARIABLES
    objs,       \* the UserInput attributes of each object (Main.py 76-81)
    stack,      \* the call stack: frames [fn, self, at, n]
    console,    \* the console: each prompt, the line typed and the message printed
    ret,        \* the last value a method returned
    main,       \* the line of the module-level script the program is at
    analyzer,   \* the AbstractAnalyzer attributes (Main.py 228-232)
    glob,       \* the module-level names (Main.py 7-9, 311-333)
    env,        \* what the program reads from outside: the table file and
                \* textstat's results for the abstract
    fs,         \* the file system: directories, files, and the open() calls made
    exc         \* the exception that ended the program, if any

\* everything but the input collector's state
world == <<analyzer, glob, env, fs, exc>>

vars == <<objs, stack, console, ret, main, world>>

\* the AbstractAnalyzer attributes before __init__ has set them
NoAnalyzer ==
    [abstract |-> None, keyword_scores |-> None,
     discipline_map |-> <<>>, classified_topic |-> <<>>]

\* Main.py 7-9, and the names lines 311-333 bind later
Globals ==
    [save_format |-> "", user_format |-> "", file_name |-> "",
     abstract_topic |-> None, abstract_readability |-> None,
     abstract_keyword |-> None, keyword_percentage |-> None,
     abstract_analysis |-> None, abstract_save |-> None]

\* nothing read from outside yet
Unread == [csv |-> None, flesch |-> None, lexicon |-> None]

\* Directories are paths from the root; the program runs in Cwd.
Cwd == <<"cwd">>
OutDir == <<"cwd", "Abstract_Analyzer_files">>
\* the output directory missing, present, or present and read-only
Directories ==
    {[dirs |-> {<<>>, Cwd}, writable |-> {Cwd}],
     [dirs |-> {<<>>, Cwd, OutDir}, writable |-> {Cwd, OutDir}],
     [dirs |-> {<<>>, Cwd, OutDir}, writable |-> {Cwd}]}
\* The directories are fixed from the start; the model settles which of
\* Directories they are when the program first opens a file.
NoFiles == [found |-> None, files |-> {}, opens |-> <<>>]

\* UserInput.__init__
NewUserInput ==
    [name |-> None, research_topics |-> None, research_abstract |-> None,
     save_analysis |-> None, check_info |-> FALSE]

Top == stack[Len(stack)]
Self == Top.self
Running(fn) == Len(stack) > 0 /\ Top.fn = fn
\* the messages that reject a line and ask for it again
Rejections == {"Invalid", "Wrong"}
Rejects == Cardinality({i \in 1..Len(console) : console[i].msg \in Rejections})

Frame(fn, self) == [fn |-> fn, self |-> self, at |-> "start", n |-> 0]
Pop == SubSeq(stack, 1, Len(stack) - 1)
\* the caller moves to line `at` and the callee's frame goes on top
CallFrom(at, f) == Append([stack EXCEPT ![Len(stack)].at = at], f)
\* one input() call: the prompt, the line typed, and the message printed on it
Shown(prompt, line, msg) ==
    Append(console, [prompt |-> prompt, line |-> line, msg |-> msg])
Bump == [stack EXCEPT ![Len(stack)].n = @ + 1]

(***************************************************************************)
(* UserInput.user_name (Main.py 83-101).  The loop is entered only while   *)
(* check_info is False: the method does not reset the flag.                *)
(***************************************************************************)
UserNameLoop ==
    /\ Running("user_name")
    /\ ~objs[Self].check_info
    /\ \E inp \in NameInputs :
          LET nm == str_upper(inp)
              check_name == str_upper(str_replace_space(nm))
              bad == ~str_isalpha(check_name) \/ Str(nm) = None
          IN  /\ bad => Rejects < MaxRejects
              /\ objs' = [objs EXCEPT ![Self].name = Str(nm),
                                      ![Self].check_info = ~bad]
              /\ console' = Shown("name", inp, IF bad THEN "Invalid" ELSE "")
    /\ stack' = Bump
    /\ UNCHANGED <<world, ret, main>>

UserNameReturn ==
    /\ Running("user_name")
    /\ objs[Self].check_info
    /\ ret' = [fn |-> "user_name", value |-> objs[Self].name, n |-> Top.n]
    /\ stack' = Pop
    /\ UNCHANGED <<world, objs, console, main>>

(***************************************************************************)
(* UserInput.user_research_topic (Main.py 103-122)                         *)
(***************************************************************************)
UserResearchTopicLoop ==
    /\ Running("user_research_topic")
    /\ Top.at = "start" \/ ~objs[Self].check_info
    /\ \E inp \in TopicInputs :
          LET topic == str_upper(inp)
              bad == Str(topic) = None \/ Len(topic) <= MinTopicLen
          IN  /\ bad => Rejects < MaxRejects
              /\ objs' = [objs EXCEPT ![Self].research_topics = Str(topic),
                                      ![Self].check_info = ~bad]
              /\ console' = Shown("topic", inp, IF bad THEN "Invalid" ELSE "")
    /\ stack' = [Bump EXCEPT ![Len(stack)].at = "loop"]
    /\ UNCHANGED <<world, ret, main>>

UserResearchTopicReturn ==
    /\ Running("user_research_topic")
    /\ Top.at = "loop" /\ objs[Self].check_info
    /\ ret' = [fn |-> "user_research_topic", value |-> objs[Self].research_topics,
               n |-> Top.n]
    /\ stack' = Pop
    /\ UNCHANGED <<world, objs, console, main>>

(***************************************************************************)
(* UserInput.user_research_abstract (Main.py 124-144)                      *)
(***************************************************************************)
WordNumbers(text) == Len(str_split(text, " "))

UserResearchAbstractLoop ==
    /\ Running("user_research_abstract")
    /\ Top.at = "start" \/ ~objs[Self].check_info
    /\ \E inp \in AbstractInputs :
          LET word_numbers == WordNumbers(inp)
              bad == Str(inp) = None \/ word_numbers < MinAbstractWords
          IN  /\ bad => Rejects < MaxRejects
              /\ objs' = [objs EXCEPT ![Self].research_abstract = Str(inp),
                                      ![Self].check_info = ~bad]
              /\ console' = Shown("abstract", inp, IF bad THEN "Invalid" ELSE "")
    /\ stack' = [Bump EXCEPT ![Len(stack)].at = "loop"]
    /\ UNCHANGED <<world, ret, main>>

UserResearchAbstractReturn ==
    /\ Running("user_research_abstract")
    /\ Top.at = "loop" /\ objs[Self].check_info
    /\ ret' = [fn |-> "user_research_abstract",
               value |-> objs[Self].research_abstract, n |-> Top.n]
    /\ stack' = Pop
    /\ UNCHANGED <<world, objs, console, main>>

(***************************************************************************)
(* UserInput.save_abstract (Main.py 146-159)                               *)
(***************************************************************************)
SaveAbstractLoop ==
    /\ Running("save_abstract")
    /\ Top.at = "start" \/ ~objs[Self].check_info
    /\ \E inp \in ConfirmInputs :
          LET save_analysis == str_lower(inp)
              bad == save_analysis \notin {"yes", "no"}
          IN  /\ bad => Rejects < MaxRejects
              /\ objs' = [objs EXCEPT ![Self].save_analysis = Str(save_analysis),
                                      ![Self].check_info = ~bad]
              /\ console' = Shown("save", inp, IF bad THEN "Invalid" ELSE "")
    /\ stack' = [Bump EXCEPT ![Len(stack)].at = "loop"]
    /\ UNCHANGED <<world, ret, main>>

SaveAbstractReturn ==
    /\ Running("save_abstract")
    /\ Top.at = "loop" /\ objs[Self].check_info
    /\ ret' = [fn |-> "save_abstract", value |-> objs[Self].save_analysis,
               n |-> Top.n]
    /\ stack' = Pop
    /\ UNCHANGED <<world, objs, console, main>>

(***************************************************************************)
(* UserInput.user_information (Main.py 161-200)                            *)
(***************************************************************************)
\* line 178
UserInformationName ==
    /\ Running("user_information") /\ Top.at = "start"
    /\ stack' = CallFrom("L179", Frame("user_name", Self))
    /\ UNCHANGED <<world, objs, console, ret, main>>

\* line 179
UserInformationTopic ==
    /\ Running("user_information") /\ Top.at = "L179"
    /\ stack' = CallFrom("L181", Frame("user_research_topic", Self))
    /\ UNCHANGED <<world, objs, console, ret, main>>

\* lines 181-198: one pass of the confirmation loop, up to the call it makes
UserInformationConfirm ==
    /\ Running("user_information") /\ Top.at \in {"L181", "L183"}
    /\ \E inp \in ConfirmInputs :
          LET is_info_valid == str_lower(inp)
          IN  /\ is_info_valid \notin {"yes", "no"} => Rejects < MaxRejects
              /\ console' = Shown("confirm", inp,
                                   CASE is_info_valid = "yes" -> "Thanks"
                                     [] is_info_valid = "no" -> "kindly"
                                     [] OTHER -> "Wrong")
              /\ stack' = CASE is_info_valid = "yes" ->
                                 CallFrom("L189", Frame("user_research_abstract", Self))
                            [] is_info_valid = "no" ->
                                 CallFrom("L193", Frame("user_name", Self))
                            [] OTHER -> [stack EXCEPT ![Len(stack)].at = "L183"]
    /\ objs' = [objs EXCEPT ![Self].check_info = FALSE]
    /\ UNCHANGED <<world, ret, main>>

\* line 193
UserInformationTopicAgain ==
    /\ Running("user_information") /\ Top.at = "L193"
    /\ stack' = CallFrom("L194", Frame("user_research_topic", Self))
    /\ UNCHANGED <<world, objs, console, ret, main>>

\* line 194
UserInformationAbstractAgain ==
    /\ Running("user_information") /\ Top.at = "L194"
    /\ stack' = CallFrom("L195", Frame("user_research_abstract", Self))
    /\ UNCHANGED <<world, objs, console, ret, main>>

\* A variant of UserInformationReturn in which the re-collection of line
\* 192-194 leaves check_info False, so the confirmation question comes again.
UserInformationReturnAsksAgain ==
    /\ Running("user_information") /\ Top.at \in {"L189", "L195"}
    /\ IF Top.at = "L195"
       THEN /\ objs' = [objs EXCEPT ![Self].check_info = FALSE]
            /\ stack' = [stack EXCEPT ![Len(stack)].at = "L183"]
            /\ UNCHANGED ret
       ELSE /\ objs' = [objs EXCEPT ![Self].check_info = TRUE]
            /\ ret' = [fn |-> "user_information",
                       value |-> objs[Self].research_abstract, n |-> Top.n]
            /\ stack' = Pop
    /\ UNCHANGED <<world, console, main>>

\* lines 189 or 195, then the loop test of line 183 and the return of line 200
UserInformationReturn ==
    /\ Running("user_information") /\ Top.at \in {"L189", "L195"}
    /\ objs' = [objs EXCEPT ![Self].check_info = TRUE]
    /\ ret' = [fn |-> "user_information", value |-> objs[Self].research_abstract,
               n |-> Top.n]
    /\ stack' = Pop
    /\ UNCHANGED <<world, console, main>>

Collect ==
    \/ UserNameLoop \/ UserNameReturn
    \/ UserResearchTopicLoop \/ UserResearchTopicReturn
    \/ UserResearchAbstractLoop \/ UserResearchAbstractReturn
    \/ UserInformationName \/ UserInformationTopic \/ UserInformationConfirm
    \/ UserInformationTopicAgain \/ UserInformationAbstractAgain
    \/ UserInformationReturn

(***************************************************************************)
(* The program, Main.py 310: abstract_analyser = AbstractAnalyzer(), whose *)
(* __init__ (223-232) runs user_information on the new object.             *)
(***************************************************************************)
Init ==
    /\ objs = [abstract_analyser |-> NewUserInput, user |-> NewUserInput]
    /\ stack = <<>>
    /\ console = <<>>
    /\ ret = [fn |-> "", value |-> None, n |-> 0]
    /\ main = "L310"
    /\ analyzer = NoAnalyzer
    /\ glob = Globals
    /\ env = Unread
    /\ fs = NoFiles
    /\ exc = None

\* lines 225-228
AnalyzerInit ==
    /\ main = "L310" /\ stack = <<>>
    /\ stack' = <<Frame("user_information", "abstract_analyser")>>
    /\ main' = "L228"
    /\ UNCHANGED <<world, objs, console, ret>>

\* lines 228-232
AnalyzerInitDone ==
    /\ main = "L228" /\ stack = <<>>
    /\ analyzer' = [abstract |-> ret.value, keyword_scores |-> None,
                    discipline_map |-> <<>>, classified_topic |-> <<>>]
    /\ main' = "L311"
    /\ UNCHANGED <<glob, env, fs, exc, objs, stack, console, ret>>

Next == AnalyzerInit \/ Collect \/ AnalyzerInitDone

Spec == Init /\ [][Next]_vars

(***************************************************************************)
(* A UserInput object used through its prompting methods in any order      *)
(* (the object `user` of Main.py 332).  user_information is a sequence of  *)
(* these calls and is followed under Spec.  The console is kept per call.  *)
(***************************************************************************)
PublicOps ==
    {"user_name", "user_research_topic", "user_research_abstract", "save_abstract"}

InitAPI ==
    /\ objs = [abstract_analyser |-> NewUserInput, user |-> NewUserInput]
    /\ stack = <<>>
    /\ console = <<>>
    /\ ret = [fn |-> "", value |-> None, n |-> 0]
    /\ main = "api"
    /\ analyzer = NoAnalyzer
    /\ glob = Globals
    /\ env = Unread
    /\ fs = NoFiles
    /\ exc = None

Invoke ==
    /\ main = "api" /\ stack = <<>>
    /\ \E fn \in PublicOps : stack' = <<Frame(fn, "user")>>
    /\ console' = <<>>
    /\ ret' = [fn |-> "", value |-> None, n |-> 0]
    /\ UNCHANGED <<world, objs, main>>

NextAPI ==
    \/ Invoke
    \/ UserNameLoop \/ UserNameReturn
    \/ UserResearchTopicLoop \/ UserResearchTopicReturn
    \/ UserResearchAbstractLoop \/ UserResearchAbstractReturn
    \/ SaveAbstractLoop \/ SaveAbstractReturn

SpecAPI == InitAPI /\ [][NextAPI]_vars

(***************************************************************************)
(* Python values used by the analysis: insertion-ordered dicts, str.strip, *)
(* str.title, sorted, and the text of numbers.                             *)
(***************************************************************************)
\* a dict is the sequence of its <<key, value>> pairs in insertion order
DictKeys(d) == [i \in 1..Len(d) |-> d[i][1]]
DictHas(d, k) == \E i \in 1..Len(d) : d[i][1] = k
DictIndex(d, k) == CHOOSE i \in 1..Len(d) : d[i][1] = k
\* d[k] = v
DictPut(d, k, v) ==
    IF DictHas(d, k) THEN [d EXCEPT ![DictIndex(d, k)] = <<k, v>>]
    ELSE Append(d, <<k, v>>)
\* d.setdefault(k, []).append(x)
SetDefaultAppend(d, k, x) ==
    IF DictHas(d, k) THEN [d EXCEPT ![DictIndex(d, k)] = <<k, Append(@[2], x)>>]
    ELSE Append(d, <<k, <<x>>>>)
\* dict(pairs), added to d
RECURSIVE PyDictFrom(_, _)
PyDictFrom(d, pairs) ==
    IF pairs = <<>> THEN d
    ELSE PyDictFrom(DictPut(d, Head(pairs)[1], Head(pairs)[2]), Tail(pairs))

Range(q) == {q[i] : i \in 1..Len(q)}

\* str.strip()
str_strip(s) ==
    LET keep == {i \in 1..Len(s) : Ch(s, i) \notin Whitespace}
    IN  IF keep = {} THEN ""
        ELSE SubSeq(s, CHOOSE i \in keep : \A j \in keep : i <= j,
                       CHOOSE i \in keep : \A j \in keep : i >= j)

\* str.title(): a letter is upper case after a non-letter, lower case after a letter
RECURSIVE title_from(_, _)
title_from(s, i) ==
    IF i > Len(s) THEN ""
    ELSE (IF i = 1 \/ Ch(s, i - 1) \notin Letters
          THEN upper_char(Ch(s, i)) ELSE lower_char(Ch(s, i))) \o title_from(s, i + 1)
str_title(s) == title_from(s, 1)

\* str(n) for an int
RECURSIVE NatStr(_)
NatStr(n) == IF n < 10 THEN Ch(Digits, n + 1) ELSE NatStr(n \div 10) \o Ch(Digits, (n % 10) + 1)
IntStr(n) == IF n < 0 THEN "-" \o NatStr(0 - n) ELSE NatStr(n)

\* Numbers with two decimals are integers in hundredths.
\* f"{value:.2f}" of a weight in [0, 1] given in hundredths
Format2f(h) ==
    NatStr(h \div 100) \o "." \o Ch(Digits, ((h % 100) \div 10) + 1)
        \o Ch(Digits, (h % 10) + 1)
\* str(x) of the float round(x, 2), given in hundredths: the shortest text, one
\* decimal at least
FloatStr(h) ==
    LET a == IF h < 0 THEN 0 - h ELSE h
        frac == IF a % 10 = 0 THEN Ch(Digits, ((a % 100) \div 10) + 1)
                ELSE Ch(Digits, ((a % 100) \div 10) + 1) \o Ch(Digits, (a % 10) + 1)
    IN  (IF h < 0 THEN "-" ELSE "") \o NatStr(a \div 100) \o "." \o frac

\* sep.join(strs)
RECURSIVE Join(_, _)
Join(sep, strs) ==
    IF strs = <<>> THEN ""
    ELSE IF Len(strs) = 1 THEN strs[1]
    ELSE strs[1] \o sep \o Join(sep, Tail(strs))
\* str(list of str): the repr of each item in single quotes
ListStr(strs) == "[" \o Join(", ", [i \in 1..Len(strs) |-> "'" \o strs[i] \o "'"]) \o "]"

\* sorted(pairs, key=lambda x: -x[1]): stable, so equal scores keep their order
SortedByScore(v) ==
    LET rank(i) == Cardinality({j \in 1..Len(v) : v[j][2] > v[i][2]})
                     + Cardinality({j \in 1..(i - 1) : v[j][2] = v[i][2]}) + 1
    IN  [p \in 1..Len(v) |-> v[CHOOSE i \in 1..Len(v) : rank(i) = p]]

(***************************************************************************)
(* What the analysis reads from outside.                                   *)
(***************************************************************************)
TopK == 10
EaseLow == 50
EaseHigh == 90
\* the most rows of a table file
MaxRows == 2

\* the rows (Discipline, Keyword) a table file may hold, as written in the file
Rows ==
    {<<"Biology", "cell">>, <<"Computer Science", "Algorithm ">>,
     <<" Biology", "algorithm">>, <<"Physics", "Graph">>}
RECURSIVE SeqsUpTo(_, _)
SeqsUpTo(S, n) ==
    IF n = 0 THEN {<<>>}
    ELSE LET shorter == SeqsUpTo(S, n - 1)
         IN  shorter \cup {Append(q, x) : q \in shorter, x \in S}
Tables == SeqsUpTo(Rows, MaxRows)

\* textstat.flesch_reading_ease, rounded to 2 decimals, in hundredths
ScoreSamples ==
    {-1234, 7050}
        \cup {(100 * e) + d : e \in {EaseLow, EaseHigh}, d \in (0 - MaxExtra)..MaxExtra}

(***************************************************************************)
(* AbstractAnalyzer.abstract_keywords (Main.py 234-251), with the          *)
(* TfidfVectorizer(stop_words="english", max_features=50) of line 226      *)
(* fitted on the one abstract.                                             *)
(***************************************************************************)
WordChars == CharsOf(LowerAlpha) \cup CharsOf(UpperAlpha) \cup CharsOf(Digits) \cup {"_"}

\* the maximal runs of word characters of s, in order
RECURSIVE word_runs(_)
word_runs(s) ==
    IF Len(s) = 0 THEN <<>>
    ELSE IF Len(s) = 1 THEN (IF s \in WordChars THEN <<s>> ELSE <<>>)
    ELSE LET h == Len(s) \div 2
             l == word_runs(SubSeq(s, 1, h))
             r == word_runs(SubSeq(s, h + 1, Len(s)))
             glue == Ch(s, h) \in WordChars /\ Ch(s, h + 1) \in WordChars
         IN  IF glue
             THEN SubSeq(l, 1, Len(l) - 1) \o <<l[Len(l)] \o r[1]>> \o Tail(r)
             ELSE l \o r

\* the vectorizer's tokens: the text in lower case, cut by the pattern
\* \b\w\w+\b, so the runs of two word characters or more
Tokens(doc) == SelectSeq(word_runs(str_lower(doc)), LAMBDA t : Len(t) >= 2)

\* some of the words of the "english" stop list; the texts analysed here hold
\* no other word of that list
StopWords == {"the", "and", "of", "to", "in", "is", "for", "with"}

\* the order of Python strings, on tokens
CodeOrder == Digits \o "_" \o LowerAlpha
RECURSIVE StrLess(_, _)
StrLess(a, b) ==
    IF b = "" THEN FALSE
    ELSE IF a = "" THEN TRUE
    ELSE IF Ch(a, 1) = Ch(b, 1) THEN StrLess(Tail(a), Tail(b))
    ELSE IndexOf(Ch(a, 1), CodeOrder) < IndexOf(Ch(b, 1), CodeOrder)

\* get_feature_names_out: the terms in sorted order
SortedTerms(S) ==
    [p \in 1..Cardinality(S) |->
        CHOOSE t \in S : Cardinality({u \in S : StrLess(u, t)}) = p - 1]

\* lines 240-241: each term of the abstract with the number of times it
\* occurs.  With one document every idf is 1, and the score of a term is its
\* count over the norm of the counts.  The texts analysed here hold fewer
\* than 50 terms, so max_features drops none.
Vectorize(doc) ==
    LET toks == Tokens(doc)
        terms == SortedTerms(Range(toks) \ StopWords)
    IN  [i \in 1..Len(terms) |->
            <<terms[i], Cardinality({j \in 1..Len(toks) : toks[j] = terms[i]})>>]

RECURSIVE SumSq(_)
SumSq(v) == IF v = <<>> THEN 0 ELSE (Head(v)[2] * Head(v)[2]) + SumSq(Tail(v))

\* count / sqrt(sumsq), rounded to hundredths
Score(count, sumsq) ==
    CHOOSE h \in 0..100 :
        /\ h = 0 \/ ((2 * h) - 1) * ((2 * h) - 1) * sumsq <= 40000 * count * count
        /\ 40000 * count * count < ((2 * h) + 1) * ((2 * h) + 1) * sumsq

\* lines 244-249, for the vectorizer's terms and counts v, which is not empty:
\* the order of the scores is the order of the counts
AbstractKeywords(v) ==
    LET top == SubSeq(SortedByScore(v), 1, IF Len(v) < TopK THEN Len(v) ELSE TopK)
        keyword_dict == PyDictFrom(<<>>, top)
    IN  PyDictFrom(<<>>, [i \in 1..Len(keyword_dict) |->
                            <<str_lower(keyword_dict[i][1]),
                              Format2f(Score(keyword_dict[i][2], SumSq(v)))>>])

(***************************************************************************)
(* AbstractAnalyzer.abstract_topic_classification (Main.py 253-279)        *)
(***************************************************************************)
NoMatch == "No matching disciplines found for the top keywords."

\* lines 264-267, added to the discipline_map the object already holds
RECURSIVE BuildDisciplineMap(_, _)
BuildDisciplineMap(dm, table) ==
    IF table = <<>> THEN dm
    ELSE LET discipline == str_strip(Head(table)[1])
             keywords == str_lower(str_strip(Head(table)[2]))
         IN  BuildDisciplineMap(SetDefaultAppend(dm, discipline, keywords), Tail(table))

\* lines 270-272 for one key
RECURSIVE MatchKey(_, _, _, _)
MatchKey(ct, dm, key, i) ==
    IF i > Len(dm) THEN ct
    ELSE MatchKey(IF key \in Range(dm[i][2])
                  THEN SetDefaultAppend(ct, dm[i][1], str_title(key)) ELSE ct,
                  dm, key, i + 1)

\* lines 270-272 for one discipline
RECURSIVE MatchDiscipline(_, _, _, _)
MatchDiscipline(ct, d, keys, j) ==
    IF j > Len(keys) THEN ct
    ELSE MatchDiscipline(IF keys[j] \in Range(d[2])
                         THEN SetDefaultAppend(ct, d[1], str_title(keys[j])) ELSE ct,
                         d, keys, j + 1)

\* A variant of ClassifyLoops with the loops exchanged: every discipline in
\* turn, and for each the keys.
RECURSIVE ClassifyLoopsByDiscipline(_, _, _)
ClassifyLoopsByDiscipline(ct, dm, keys) ==
    IF dm = <<>> THEN ct
    ELSE ClassifyLoopsByDiscipline(MatchDiscipline(ct, Head(dm), keys, 1), Tail(dm), keys)

\* lines 269-272: every key in turn, and for each the disciplines
RECURSIVE ClassifyLoops(_, _, _)
ClassifyLoops(ct, dm, keys) ==
    IF keys = <<>> THEN ct
    ELSE ClassifyLoops(MatchKey(ct, dm, Head(keys), 1), dm, Tail(keys))

\* A variant of ClassificationResult without lines 274-275: the loop of line
\* 278 ends without a return.
ClassificationResultNoSentinel(ct) == IF ct = <<>> THEN None ELSE Str(ct[1][1])

\* lines 274-279
ClassificationResult(ct) == IF ct = <<>> THEN Str(NoMatch) ELSE Str(ct[1][1])

\* textstat.lexicon_count(text, removepunct=True): the words of the text
LexiconCount(text) == Len(str_split_whitespace(text, " "))

\* Main.py 311.  fit_transform raises ValueError on an empty vocabulary.
AbstractTopicClassification ==
    /\ main = "L311" /\ stack = <<>>
    /\ \E table \in Tables :
          LET dm == BuildDisciplineMap(analyzer.discipline_map, table)
              v == Vectorize(analyzer.abstract[1])
              ks == AbstractKeywords(v)
              ct == ClassifyLoops(analyzer.classified_topic, dm, DictKeys(ks))
          IN  /\ env' = [env EXCEPT !.csv = Str(table)]
              /\ IF v = <<>>
                 THEN /\ analyzer' = [analyzer EXCEPT !.discipline_map = dm]
                      /\ exc' = Str("ValueError")
                      /\ main' = "crashed"
                      /\ UNCHANGED glob
                 ELSE /\ analyzer' = [analyzer EXCEPT !.discipline_map = dm,
                                                      !.keyword_scores = Str(ks),
                                                      !.classified_topic = ct]
                      /\ glob' = [glob EXCEPT !.abstract_topic = ClassificationResult(ct)]
                      /\ main' = "L312"
                      /\ UNCHANGED exc
    /\ UNCHANGED <<objs, stack, console, ret, fs>>

(***************************************************************************)
(* AbstractAnalyzer.abstract_complexity (Main.py 281-307)                  *)
(***************************************************************************)
FeedbackEasy ==
    "The abstract is very clear and easy to understand, even for younger readers aged 9 to 16. This is a significant strength, as it makes the research accessible to a wider audience. The language used is engaging and straightforward, which helps readers quickly grasp the key points. Since this is an academic paper, consider adding 1 or 2 technical terms along with brief explanations to meet scholarly expectations while maintaining high readability."
FeedbackElse ==
    "The abstract effectively outlines the key points of the research, but it may need some adjustments to make it more accessible to a broader audience. The research topic is important, and with a few tweaks, it could be even more engaging. Some terms might be too technical for younger readers the goal is not to sacrifice academic rigor, but to enhance understanding."

\* A variant of IsEasy with the comparisons turned round: 50 <= score <= 90.
IsEasyInRange(reading_ease) ==
    (100 * EaseLow) <= reading_ease /\ reading_ease <= (100 * EaseHigh)

\* line 293: 50 >= reading_ease >= 90, the score in hundredths
IsEasy(reading_ease) ==
    (100 * EaseLow) >= reading_ease /\ reading_ease >= (100 * EaseHigh)

\* lines 293-307, for the abstract and its reading ease
Complexity(abstract, reading_ease) ==
    LET feedback == IF IsEasy(reading_ease) THEN FeedbackEasy ELSE FeedbackElse
        word_count == LexiconCount(abstract)
        char_count == Len(abstract)
    IN  <<word_count, char_count, reading_ease, feedback>>

\* Main.py 312
AbstractComplexity ==
    /\ main = "L312" /\ stack = <<>>
    /\ \E reading_ease \in ScoreSamples :
          /\ env' = [env EXCEPT !.flesch = Str(reading_ease),
                                !.lexicon = Str(LexiconCount(analyzer.abstract[1]))]
          /\ glob' = [glob EXCEPT !.abstract_readability =
                         Str(Complexity(analyzer.abstract[1], reading_ease))]
    /\ main' = "L313"
    /\ UNCHANGED <<objs, stack, console, ret, analyzer, fs, exc>>

\* Main.py 313: abstract_keywords again, on the same abstract
AbstractKeywordsAgain ==
    /\ main = "L313" /\ stack = <<>>
    /\ LET ks == AbstractKeywords(Vectorize(analyzer.abstract[1]))
       IN  /\ analyzer' = [analyzer EXCEPT !.keyword_scores = Str(ks)]
           /\ glob' = [glob EXCEPT !.abstract_keyword = Str(ks)]
    /\ main' = "L315"
    /\ UNCHANGED <<objs, stack, console, ret, env, fs, exc>>

(***************************************************************************)
(* The report (Main.py 315-330)                                            *)
(***************************************************************************)
\* line 315
KeywordPercentage(keywords) ==
    [i \in 1..Len(keywords) |-> keywords[i][1] \o ":" \o keywords[i][2] \o "%"]

\* line 318, up to the topic
ReportOpening == "\nTHE ACADEMIC CONFERENCE IS FOCUSED ON "

\* lines 317-328
AbstractAnalysis(topic, name, research_topics, readability, keyword_percentage) ==
    ReportOpening
        \o str_upper(topic)
        \o " DISCIPLINE\"\n                            \n    THIS IS THE ANALYSIS OF THE ABSTRACT PASTED FROM YOUR RESEARCH PAPER:\n            Username: "
        \o name
        \o "\n            Research Topic: "
        \o research_topics
        \o "\n            Total words in Abstract: "
        \o IntStr(readability[1])
        \o "\n            Total characters in Abstract: "
        \o IntStr(readability[2])
        \o "\n            Abstract readability score: "
        \o FloatStr(readability[3])
        \o "\n            Abstract feedback: \n                        ["
        \o readability[4]
        \o "]\n            Abstract keywords: \n                    "
        \o ListStr(keyword_percentage)

Printed(text) == Append(console, [prompt |-> "", line |-> "", msg |-> text])

\* Main.py 315-330.  None has no upper(): line 317 raises AttributeError.
Report ==
    /\ main = "L315" /\ stack = <<>>
    /\ LET kp == KeywordPercentage(glob.abstract_keyword[1])
           o == objs.abstract_analyser
       IN  IF glob.abstract_topic = None
           THEN /\ glob' = [glob EXCEPT !.keyword_percentage = Str(kp)]
                /\ exc' = Str("AttributeError")
                /\ main' = "crashed"
                /\ UNCHANGED console
           ELSE LET text == AbstractAnalysis(glob.abstract_topic[1], o.name[1],
                                             o.research_topics[1],
                                             glob.abstract_readability[1], kp)
                IN  /\ glob' = [glob EXCEPT !.keyword_percentage = Str(kp),
                                            !.abstract_analysis = Str(text)]
                    /\ console' = Printed(text)
                    /\ main' = "L332"
                    /\ UNCHANGED exc
    /\ UNCHANGED <<objs, stack, ret, analyzer, env, fs>>

(***************************************************************************)
(* The program from line 311 on, after AbstractAnalyzer() has returned     *)
(* with a submission the collector accepts.                                *)
(***************************************************************************)
\* the lines typed by a user whose submission the collector accepts
TypedName == "Jane Doe"
TypedTopic == "Graphs \"and\" Trees \\ " \o Repeat("t", MinTopicLen - 19)
\* ten terms, each TopK times, and one more term once
ManyTerms ==
    <<"graph", "tree", "node", "edge", "path", "cycle", "queue", "stack", "heap", "hash">>
TypedAbstracts ==
    {Words("Ab", " ", MinAbstractWords),
     Repeat(" ", MinAbstractWords - 1),
     Words("the", " ", MinAbstractWords),
     Words("Algorithm Cell", " ", MinAbstractWords \div 2),
     Words("cell", " ", 60) \o " " \o Words("algorithm", " ", 40),
     Words(Join(" ", ManyTerms), " ", TopK) \o " cell"}

\* the state AbstractAnalyzer() returns in, the abstract typed being a
Constructed(a) ==
    /\ objs = [abstract_analyser |->
                  [name |-> Str(str_upper(TypedName)),
                   research_topics |-> Str(str_upper(TypedTopic)),
                   research_abstract |-> Str(a), save_analysis |-> None,
                   check_info |-> TRUE],
               user |-> NewUserInput]
    /\ ret = [fn |-> "user_information", value |-> Str(a), n |-> 0]
    /\ stack = <<>>
    /\ exc = None

Transcript(a) ==
    <<[prompt |-> "name", line |-> TypedName, msg |-> ""],
      [prompt |-> "topic", line |-> TypedTopic, msg |-> ""],
      [prompt |-> "confirm", line |-> "yes", msg |-> "Thanks"],
      [prompt |-> "abstract", line |-> a, msg |-> ""]>>

InitAnalysis ==
    /\ \E a \in TypedAbstracts :
          /\ WordNumbers(a) >= MinAbstractWords
          /\ Constructed(a)
          /\ analyzer = [NoAnalyzer EXCEPT !.abstract = Str(a)]
          /\ console = Transcript(a)
    /\ main = "L311"
    /\ glob = Globals
    /\ env = Unread
    /\ fs = NoFiles

NextAnalysis ==
    \/ AbstractTopicClassification
    \/ AbstractComplexity
    \/ AbstractKeywordsAgain
    \/ Report

SpecAnalysis == InitAnalysis /\ [][NextAnalysis]_vars

(***************************************************************************)
(* abstract_topic_classification (Main.py 253-279) called any number of    *)
(* times on one analyzer, the table file being any table at each call.    *)
(***************************************************************************)
\* the most entries the lists of discipline_map, and of classified_topic, come
\* to hold
MaxHeld == 4

RECURSIVE RowsHeld(_)
RowsHeld(dm) == IF dm = <<>> THEN 0 ELSE Len(Head(dm)[2]) + RowsHeld(Tail(dm))

\* the abstracts of the analyzers called: two terms, no term of any table,
\* and no term at all
CalledAbstracts ==
    {Words("Algorithm Cell", " ", MinAbstractWords \div 2),
     Words("Ab", " ", MinAbstractWords),
     Repeat(" ", MinAbstractWords - 1)}

InitCalls ==
    /\ \E a \in CalledAbstracts :
          /\ WordNumbers(a) >= MinAbstractWords
          /\ Constructed(a)
          /\ analyzer = [NoAnalyzer EXCEPT !.abstract = Str(a)]
          /\ console = Transcript(a)
    /\ main = "calls"
    /\ glob = Globals
    /\ env = Unread
    /\ fs = NoFiles

\* one call: lines 261-279 on the maps the analyzer holds; each value is
\* computed once.  fit_transform raises ValueError on an empty vocabulary.
TopicClassificationCall ==
    /\ main = "calls" /\ stack = <<>>
    /\ \E v \in {Vectorize(analyzer.abstract[1])} :
       \E ks \in {IF v = <<>> THEN <<>> ELSE AbstractKeywords(v)} :
       \E table \in Tables :
       \E dm \in {BuildDisciplineMap(analyzer.discipline_map, table)} :
       \E ct \in {ClassifyLoops(analyzer.classified_topic, dm, DictKeys(ks))} :
          /\ RowsHeld(dm) <= MaxHeld /\ RowsHeld(ct) <= MaxHeld
          /\ env' = [env EXCEPT !.csv = Str(table)]
          /\ IF v = <<>>
             THEN /\ analyzer' = [analyzer EXCEPT !.discipline_map = dm]
                  /\ exc' = Str("ValueError")
                  /\ main' = "crashed"
                  /\ UNCHANGED ret
             ELSE /\ analyzer' = [analyzer EXCEPT !.discipline_map = dm,
                                                  !.keyword_scores = Str(ks),
                                                  !.classified_topic = ct]
                  /\ ret' = [fn |-> "abstract_topic_classification",
                             value |-> ClassificationResult(ct), n |-> 0]
                  /\ UNCHANGED <<exc, main>>
    /\ UNCHANGED <<objs, stack, console, glob, fs>>

NextCalls == TopicClassificationCall

SpecCalls == InitCalls /\ [][NextCalls]_vars

(***************************************************************************)
(* Files and JSON text: open(path, "wt"), file.write, and                  *)
(* json.dumps(data, indent=4) as save_abstract_analysis uses them.         *)
(***************************************************************************)
\* the directory reached from dir through the components of a path, or None
\* when a component is no directory
RECURSIVE Walk(_, _, _)
Walk(dirs, dir, parts) ==
    IF parts = <<>> THEN Str(dir)
    ELSE LET p == Head(parts)
             next == IF p \in {"", "."} THEN dir
                     ELSE IF p = ".."
                          THEN (IF dir = <<>> THEN dir ELSE SubSeq(dir, 1, Len(dir) - 1))
                     ELSE Append(dir, p)
         IN  IF next \in dirs THEN Walk(dirs, next, Tail(parts)) ELSE None

\* open(path, "wt") with the directories d and the files there: the error
\* raised, if any, or the file opened
Open(d, files, path) ==
    LET parts == str_split(path, "/")
        dir == Walk(d.dirs, Cwd, SubSeq(parts, 1, Len(parts) - 1))
        file == Append(dir[1], parts[Len(parts)])
    IN  IF dir = None THEN [error |-> "FileNotFoundError", file |-> <<>>]
        ELSE IF file \in d.dirs THEN [error |-> "IsADirectoryError", file |-> <<>>]
        ELSE IF dir[1] \notin d.writable /\ file \notin {f[1] : f \in files}
             THEN [error |-> "PermissionError", file |-> <<>>]
        ELSE [error |-> "", file |-> file]

\* the files after `with open(...) as file: file.write(content)`
Written(files, file, content) ==
    {f \in files : f[1] # file} \cup {<<file, content>>}

\* str(e) of the FileNotFoundError open raises
NoSuchFile(path) == "[Errno 2] No such file or directory: '" \o path \o "'"

\* json.dumps of one character of a str
json_char(c) ==
    CASE c = "\"" -> "\\\""
      [] c = "\\" -> "\\\\"
      [] c = "\n" -> "\\n"
      [] c = "\t" -> "\\t"
      [] OTHER -> c

RECURSIVE json_escape(_)
json_escape(s) ==
    IF Len(s) = 0 THEN ""
    ELSE IF Len(s) = 1 THEN json_char(s)
    ELSE LET h == Len(s) \div 2
         IN  json_escape(SubSeq(s, 1, h)) \o json_escape(SubSeq(s, h + 1, Len(s)))

\* json.dumps of a str
JsonStr(s) == "\"" \o json_escape(s) \o "\""

\* A JSON value is its kind and its items: the text of a str, the digits of a
\* number, the strs of a list.
JsonValue(kind, items) == [kind |-> kind, items |-> items]

\* json.dumps of a value that is a member of the top object, indent=4
JsonMember(v) ==
    CASE v.kind = "str" -> JsonStr(v.items[1])
      [] v.kind = "list" ->
            IF v.items = <<>> THEN "[]"
            ELSE "[\n" \o Join(",\n", [i \in 1..Len(v.items) |->
                                          Repeat(" ", 8) \o JsonStr(v.items[i])])
                       \o "\n" \o Repeat(" ", 4) \o "]"
      [] OTHER -> v.items[1]

\* json.dumps(data, indent=4) of a dict of such values
JsonDumps(data) ==
    IF data = <<>> THEN "{}"
    ELSE "{\n" \o Join(",\n", [i \in 1..Len(data) |->
                                  Repeat(" ", 4) \o JsonStr(data[i][1]) \o ": "
                                      \o JsonMember(data[i][2])])
               \o "\n}"

(***************************************************************************)
(* save_abstract_analysis (Main.py 12-55), called at line 334 with the     *)
(* answer of user.save_abstract() (lines 332-333).                         *)
(***************************************************************************)
FileNameInputs == {"", "notes", "Report", "../x"}
FormatInputs == {"TEXT", "json", "pdf"}
DefaultFileName == "Abstract_Analysis"

\* A variant of JsonKeywords that leaves out the percent sign.
JsonKeywordsNoPercent(keywords) ==
    [i \in 1..Len(keywords) |-> keywords[i][1] \o ":" \o keywords[i][2]]

\* line 46
JsonKeywords(keywords) ==
    [i \in 1..Len(keywords) |-> keywords[i][1] \o ":" \o keywords[i][2] \o "%"]

\* lines 39-47
JsonData(readability, keywords, name, research_topics) ==
    <<<<"name", JsonValue("str", <<name>>)>>,
      <<"research topic", JsonValue("str", <<research_topics>>)>>,
      <<"total words", JsonValue("int", <<IntStr(readability[1])>>)>>,
      <<"total characters", JsonValue("int", <<IntStr(readability[2])>>)>>,
      <<"readability scores", JsonValue("float", <<FloatStr(readability[3])>>)>>,
      <<"feedback", JsonValue("str", <<readability[4]>>)>>,
      <<"keywords", JsonValue("list", JsonKeywords(keywords))>>>>

\* A variant of Catches that catches no exception.
CatchesNothing(error) == FALSE

\* line 52: except FileNotFoundError
Catches(error) == error = "FileNotFoundError"

\* Main.py 332-333: user = UserInput(); user.save_abstract() is called
MainSaveAbstract ==
    /\ main = "L332" /\ stack = <<>>
    /\ objs' = [objs EXCEPT !.user = NewUserInput]
    /\ stack' = <<Frame("save_abstract", "user")>>
    /\ main' = "L333"
    /\ UNCHANGED <<world, console, ret>>

\* Main.py 333-334: abstract_save is bound and save_abstract_analysis entered
MainSaveAbstractDone ==
    /\ main = "L333" /\ stack = <<>> /\ ret.fn = "save_abstract"
    /\ glob' = [glob EXCEPT !.abstract_save = ret.value]
    /\ main' = "L15"
    /\ UNCHANGED <<objs, stack, console, ret, analyzer, env, fs, exc>>

\* lines 15, 54-55
SaveDeclined ==
    /\ main = "L15" /\ stack = <<>>
    /\ glob.abstract_save # Str("yes")
    /\ console' = Printed("Thanks for using the Abstract Analysis Tools")
    /\ main' = "done"
    /\ UNCHANGED <<objs, stack, ret, world>>

\* lines 15-18
SaveFileName ==
    /\ main = "L15" /\ stack = <<>>
    /\ glob.abstract_save = Str("yes")
    /\ \E inp \in FileNameInputs :
          /\ glob' = [glob EXCEPT !.file_name =
                         IF str_lower(inp) = "" THEN DefaultFileName ELSE str_lower(inp)]
          /\ console' = Shown("file_name", inp, "")
    /\ main' = "L19"
    /\ UNCHANGED <<objs, stack, ret, analyzer, env, fs, exc>>

\* lines 19-31, one turn of the loop with an answer that is neither text nor json
SaveFormatLoop ==
    /\ main = "L19" /\ stack = <<>>
    /\ Rejects < MaxRejects
    /\ \E inp \in FormatInputs :
          /\ str_lower(inp) \notin {"text", "json"}
          /\ glob' = [glob EXCEPT !.user_format = str_lower(inp)]
          /\ console' = Shown("format", inp, "Invalid")
    /\ UNCHANGED <<objs, stack, ret, main, analyzer, env, fs, exc>>

\* lines 19-53, the last turn of the loop and the write: the file is opened in
\* the directories found, and an error that line 52 does not catch ends the run
SaveWrite ==
    /\ main = "L19" /\ stack = <<>>
    /\ \E inp \in FormatInputs, d \in Directories :
          LET user_format == str_lower(inp)
              save_format == IF user_format = "text" THEN "txt" ELSE "json"
              path == "Abstract_Analyzer_files/" \o glob.file_name \o "." \o save_format
              o == objs.abstract_analyser
              json_data == JsonDumps(JsonData(glob.abstract_readability[1],
                                              glob.abstract_keyword[1],
                                              o.name[1], o.research_topics[1]))
              opened == Open(d, fs.files, path)
              asked == Shown("format", inp, "")
          IN  /\ user_format \in {"text", "json"}
              /\ fs.found # None => d = fs.found[1]
              /\ glob' = [glob EXCEPT !.user_format = user_format,
                                      !.save_format = save_format]
              /\ IF opened.error = ""
                 THEN /\ fs' = [found |-> Str(d),
                                files |-> Written(fs.files, opened.file,
                                                  IF user_format = "text"
                                                  THEN glob.abstract_analysis[1]
                                                  ELSE json_data),
                                opens |-> Append(fs.opens, path)]
                      /\ console' = Append(asked,
                            [prompt |-> "", line |-> "",
                             msg |-> IF user_format = "text"
                                     THEN "The Abstract Analysis is saved as a text file\nThank You!!!"
                                     ELSE "The Abstract Analysis is saved as a Json file\nThank You!!!"])
                      /\ main' = "done"
                      /\ UNCHANGED exc
                 ELSE /\ fs' = [fs EXCEPT !.found = Str(d), !.opens = Append(@, path)]
                      /\ IF Catches(opened.error)
                         THEN /\ console' = Append(asked,
                                    [prompt |-> "", line |-> "",
                                     msg |-> "Error:\n" \o NoSuchFile(path)
                                                 \o "\nFILE NOT SAVED"])
                              /\ main' = "done"
                              /\ UNCHANGED exc
                         ELSE /\ console' = asked
                              /\ exc' = Str(opened.error)
                              /\ main' = "crashed"
    /\ UNCHANGED <<objs, stack, ret, analyzer, env>>

(***************************************************************************)
(* The program from line 332 on, after the report of an accepted           *)
(* submission has been printed.                                            *)
(***************************************************************************)
SavedAbstracts ==
    {Words("Algorithm Cell", " ", MinAbstractWords \div 2),
     Words(Join(" ", ManyTerms), " ", TopK) \o " cell"}
SavedTables == {<<>>, <<<<"Biology", "cell">>, <<"Computer Science", "Algorithm ">>>>}
SavedScores == {-1234, 7050}

\* the state line 330 leaves for the abstract a, the table and the reading
\* ease; each value is computed once
Reported(a, table, reading_ease) ==
    \E dm \in {BuildDisciplineMap(<<>>, table)}, v \in {Vectorize(a)} :
    \E ks \in {AbstractKeywords(v)} :
    \E ct \in {ClassifyLoops(<<>>, dm, DictKeys(ks))},
       readability \in {Complexity(a, reading_ease)},
       kp \in {KeywordPercentage(ks)} :
    \E text \in {AbstractAnalysis(ClassificationResult(ct)[1], str_upper(TypedName),
                                  str_upper(TypedTopic), readability, kp)} :
        /\ Constructed(a)
        /\ analyzer = [abstract |-> Str(a), keyword_scores |-> Str(ks),
                       discipline_map |-> dm, classified_topic |-> ct]
        /\ glob = [Globals EXCEPT !.abstract_topic = ClassificationResult(ct),
                                  !.abstract_readability = Str(readability),
                                  !.abstract_keyword = Str(ks),
                                  !.keyword_percentage = Str(kp),
                                  !.abstract_analysis = Str(text)]
        /\ env = [csv |-> Str(table), flesch |-> Str(reading_ease),
                  lexicon |-> Str(LexiconCount(a))]
        /\ console = Append(Transcript(a), [prompt |-> "", line |-> "", msg |-> text])

InitSave ==
    /\ \E a \in SavedAbstracts, table \in SavedTables, reading_ease \in SavedScores :
          Reported(a, table, reading_ease)
    /\ main = "L332"
    /\ fs = NoFiles

NextSave ==
    \/ MainSaveAbstract
    \/ SaveAbstractLoop \/ SaveAbstractReturn
    \/ MainSaveAbstractDone
    \/ SaveDeclined
    \/ SaveFileName
    \/ SaveFormatLoop
    \/ SaveWrite

SpecSave == InitSave /\ [][NextSave]_vars

(***************************************************************************)
(* Properties of the input collector.                                      *)
(***************************************************************************)
NumSpaces(s) == Cardinality({i \in 1..Len(s) : Ch(s, i) = " "})
\* the words of s: the places where a run of non-whitespace characters starts
NumWords(s) ==
    Cardinality({i \in 1..Len(s) :
                    /\ Ch(s, i) \notin Whitespace
                    /\ i = 1 \/ Ch(s, i - 1) \in Whitespace})
LettersAndSpaces(s) == \A i \in 1..Len(s) : Ch(s, i) \in Letters \cup {" "}

Entries(prompt) == {i \in 1..Len(console) : console[i].prompt = prompt}
Accepted(prompt) == {i \in Entries(prompt) : console[i].msg \notin Rejections}
Answered(msg) == {i \in Entries("confirm") : console[i].msg = msg}
Returned == main = "L311"

\* C2: in a run of user_information the confirmation is answered yes or no
\* exactly once; name and topic are collected a second time exactly when the
\* answer is no, never a third time; the abstract is collected once, after the
\* answer; no confirmation question follows the answer; any other answer only
\* repeats the confirmation question.
C2_SingleShotRetry ==
    LET no == Answered("kindly")
        answers == Answered("Thanks") \cup no
    IN  /\ Cardinality(answers) <= 1
        /\ Returned => Cardinality(answers) = 1
        /\ \A p \in {"name", "topic"} :
              /\ Cardinality(Accepted(p)) <= 2
              /\ Returned => Cardinality(Accepted(p)) = (IF no # {} THEN 2 ELSE 1)
              /\ \A i \in Entries(p) :
                    (\E j \in Accepted(p) : j < i) => (\E k \in no : k < i)
        /\ Cardinality(Accepted("abstract")) <= 1
        /\ Returned => Cardinality(Accepted("abstract")) = 1
        /\ \A i \in Entries("abstract") : \E k \in answers : k < i
        /\ \A k \in answers : \A i \in Entries("confirm") : i <= k
        /\ \A i \in Answered("Wrong") :
              i < Len(console) => console[i + 1].prompt = "confirm"

C2_Witness == Returned /\ Answered("kindly") # {} /\ Answered("Wrong") # {}

\* C3: when user_information returns, the name is non-empty and holds letters
\* and spaces only, the topic is longer than 30 characters, and the abstract
\* has at least 100 whitespace-separated tokens.
C3_SubmissionValid ==
    Returned =>
        LET o == objs.abstract_analyser
        IN  /\ o.name # None /\ o.research_topics # None /\ o.research_abstract # None
            /\ Len(o.name[1]) > 0 /\ LettersAndSpaces(o.name[1])
            /\ Len(o.research_topics[1]) > MinTopicLen
            /\ NumWords(o.research_abstract[1]) >= MinAbstractWords

C5_UserNameValidates ==
    ret.fn = "user_name" =>
        /\ ret.n >= 1
        /\ ret.value # None
        /\ ret.value = objs.user.name
        /\ str_upper(ret.value[1]) = ret.value[1]
        /\ str_isalpha(str_replace_space(ret.value[1]))

(***************************************************************************)
(* Properties of the analysis.                                             *)
(***************************************************************************)
\* the table read and the keywords extracted by abstract_topic_classification
TableRead == env.csv[1]
TopKeywords == DictKeys(analyzer.keyword_scores[1])
Classified == env.csv # None /\ analyzer.keyword_scores # None

RowDiscipline(r) == str_strip(r[1])
RowKeyword(r) == str_lower(str_strip(r[2]))
Disciplines == {RowDiscipline(TableRead[i]) : i \in 1..Len(TableRead)}
\* discipline d has keyword k in some row
Lists(d, k) ==
    \E i \in 1..Len(TableRead) :
        RowDiscipline(TableRead[i]) = d /\ RowKeyword(TableRead[i]) = k
\* the disciplines whose keyword list holds a keyword of K
Matching(K) == {d \in Disciplines : \E k \in K : Lists(d, k)}
FirstRow(d) ==
    CHOOSE i \in 1..Len(TableRead) :
        /\ RowDiscipline(TableRead[i]) = d
        /\ \A j \in 1..(i - 1) : RowDiscipline(TableRead[j]) # d
FirstInTable(D) == CHOOSE d \in D : \A e \in D : FirstRow(d) <= FirstRow(e)

\* C1 as stated: the discipline returned is the first in table row order among
\* the disciplines whose keyword list holds any extracted keyword.
C1_FirstDisciplineInTable ==
    Classified /\ Matching(Range(TopKeywords)) # {} =>
        glob.abstract_topic = Str(FirstInTable(Matching(Range(TopKeywords))))

\* C1 amended: the discipline returned is a function of the table and the
\* keyword list: the first in table row order among the disciplines whose
\* keyword list holds the earliest extracted keyword that any list holds.
C1_FirstKeywordThenTable ==
    Classified /\ Matching(Range(TopKeywords)) # {} =>
        LET j == CHOOSE j \in 1..Len(TopKeywords) :
                    /\ Matching({TopKeywords[j]}) # {}
                    /\ \A i \in 1..(j - 1) : Matching({TopKeywords[i]}) = {}
        IN  glob.abstract_topic = Str(FirstInTable(Matching({TopKeywords[j]})))

C1_Witness ==
    /\ Classified
    /\ Cardinality(Matching(Range(TopKeywords))) >= 2
    /\ glob.abstract_topic # None
    /\ glob.abstract_topic # Str(FirstInTable(Matching(Range(TopKeywords))))

\* C9: when no extracted keyword is in any discipline's keyword list, the
\* classification returns the no-match sentence, which is no discipline of the
\* table, nothing is raised, and the report is built with the sentence in
\* upper case.
NoMatchCase == Classified /\ Matching(Range(TopKeywords)) = {}
ReportHead == ReportOpening \o "NO MATCHING DISCIPLINES FOUND FOR THE TOP KEYWORDS."
C9_NoMatchSentinel ==
    NoMatchCase =>
        /\ exc = None /\ main # "crashed"
        /\ glob.abstract_topic = Str(NoMatch)
        /\ NoMatch \notin Disciplines
        /\ main = "L332" =>
              /\ glob.abstract_analysis # None
              /\ SubSeq(glob.abstract_analysis[1], 1, Len(ReportHead)) = ReportHead

C9_Witness == NoMatchCase /\ main = "L332" /\ Len(TableRead) > 0

\* C10: whatever the readability score, abstract_complexity gives the feedback
\* of the else branch, never the "very clear and easy to understand" one.
C10_ElseFeedback ==
    glob.abstract_readability # None =>
        /\ glob.abstract_readability[1][4] = FeedbackElse
        /\ glob.abstract_readability[1][4] # FeedbackEasy

C10_Witness ==
    /\ glob.abstract_readability # None
    /\ glob.abstract_readability[1][3] = 100 * EaseHigh

(***************************************************************************)
(* Properties of the save.                                                 *)
(***************************************************************************)
\* the number of backslashes in a row that end at place k of s
RECURSIVE RunBack(_, _)
RunBack(s, k) == IF k = 0 \/ Ch(s, k) # "\\" THEN 0 ELSE 1 + RunBack(s, k - 1)

\* the character an escape stands for
json_unescape_char(c) ==
    CASE c = "n" -> "\n"
      [] c = "t" -> "\t"
      [] OTHER -> c

\* the text the inside of a JSON string literal stands for
RECURSIVE json_unescape(_)
json_unescape(s) ==
    IF Len(s) <= 1 THEN s
    ELSE IF Len(s) = 2 /\ Ch(s, 1) = "\\" THEN json_unescape_char(Ch(s, 2))
    ELSE LET h == Len(s) \div 2
             cut == IF RunBack(s, h) % 2 = 1 THEN h + 1 ELSE h
         IN  json_unescape(SubSeq(s, 1, cut)) \o json_unescape(SubSeq(s, cut + 1, Len(s)))

\* the place of the quote that closes the string literal s begins with
Closing(s) ==
    LET quotes == {k \in 2..Len(s) : Ch(s, k) = "\"" /\ RunBack(s, k - 1) % 2 = 0}
    IN  CHOOSE k \in quotes : \A j \in quotes : k <= j
\* the str the literal stands for
JsonText(s) == json_unescape(SubSeq(s, 2, Closing(s) - 1))

\* a line of the document without its indentation and its closing comma
Unindented(line) ==
    LET k == CHOOSE k \in 1..Len(line) :
                /\ Ch(line, k) # " "
                /\ \A j \in 1..(k - 1) : Ch(line, j) = " "
        body == SubSeq(line, k, Len(line))
    IN  IF Ch(body, Len(body)) = "," /\ Len(body) > 1
        THEN SubSeq(body, 1, Len(body) - 1) ELSE body

\* the members of an object written one to a line, a list one item to a line
RECURSIVE ParseMembers(_, _, _)
ParseMembers(lines, i, doc) ==
    IF i > Len(lines) \/ lines[i] = "}" THEN doc
    ELSE LET m == Unindented(lines[i])
             k == Closing(m)
             key == JsonText(m)
             rest == SubSeq(m, k + 3, Len(m))
             end == CHOOSE j \in (i + 1)..Len(lines) :
                       /\ Unindented(lines[j]) = "]"
                       /\ \A x \in (i + 1)..(j - 1) : Unindented(lines[x]) # "]"
         IN  IF rest = "["
             THEN ParseMembers(lines, end + 1,
                      DictPut(doc, key,
                              JsonValue("list", [x \in 1..(end - i - 1) |->
                                                    JsonText(Unindented(lines[i + x]))])))
             ELSE ParseMembers(lines, i + 1,
                      DictPut(doc, key,
                              IF rest = "[]" THEN JsonValue("list", <<>>)
                              ELSE IF Ch(rest, 1) = "\"" THEN JsonValue("str", <<JsonText(rest)>>)
                              ELSE IF "." \in CharsOf(rest) THEN JsonValue("float", <<rest>>)
                              ELSE JsonValue("int", <<rest>>)))

\* json.loads of a document that json.dumps(data, indent=4) wrote
JsonLoads(text) ==
    LET lines == str_split(text, "\n")
    IN  IF lines[1] = "{" THEN ParseMembers(lines, 2, <<>>) ELSE <<>>

SaveEntries == Entries("file_name")
\* open was called and no file is there
OpenFailed == fs.opens # <<>> /\ fs.files = {}
LastShown == console[Len(console)]
ErrorShown ==
    LastShown.msg = "Error:\n" \o NoSuchFile(fs.opens[1]) \o "\nFILE NOT SAVED"

\* C6 as stated: when the save is accepted and creating the file fails, for
\* whatever reason, the error is caught and printed, no file is written and
\* the run ends normally, the file having been opened once.
C6_AnyFailureCaught ==
    OpenFailed =>
        /\ main = "done" /\ exc = None
        /\ ErrorShown
        /\ Len(fs.opens) = 1

\* C6 amended: when creating the file fails because the output directory is
\* missing, the error is caught and printed, no file is written and the run
\* ends normally; any other failure of the open is not caught, nothing is
\* printed for it and the run ends with the exception.  The file is opened
\* once in both cases.
C6_MissingDirectoryCaught ==
    OpenFailed =>
        /\ Len(fs.opens) = 1
        /\ main \in {"done", "crashed"}
        /\ IF OutDir \notin fs.found[1].dirs
           THEN main = "done" /\ exc = None /\ ErrorShown
           ELSE /\ main = "crashed" /\ exc = Str("PermissionError")
                /\ LastShown.prompt = "format" /\ LastShown.msg = ""

C6_Witness == OpenFailed /\ main = "done" /\ glob.file_name = DefaultFileName

\* C7: when the save is accepted and a file is written, it is the one file
\* written, it lies in the output directory and is named by the base name as
\* entered, or Abstract_Analysis for a blank entry, with .txt or .json; the
\* text file holds the report.
C7_FileNamedAsEntered ==
    main = "done" /\ fs.files # {} =>
        LET typed == console[CHOOSE i \in SaveEntries : TRUE].line
            base == IF typed = "" THEN DefaultFileName ELSE typed
            ext == IF glob.user_format = "text" THEN ".txt" ELSE ".json"
        IN  /\ Cardinality(fs.files) = 1
            /\ \A f \in fs.files :
                  /\ f[1] = Append(OutDir, base \o ext)
                  /\ glob.user_format = "text" => f[2] = glob.abstract_analysis[1]

JsonKeys ==
    <<"name", "research topic", "total words", "total characters",
      "readability scores", "feedback", "keywords">>

\* C8: the JSON file written, parsed back, is an object with the keys name,
\* research topic, total words, total characters, readability scores,
\* feedback and keywords in this order, holding the values written, and its
\* keywords are, in order, the term:value% strings the report ends with.
C8_JsonRoundTrip ==
    \A f \in fs.files :
        glob.user_format = "json" =>
            \E doc \in {JsonLoads(f[2])} :
                /\ DictKeys(doc) = JsonKeys
                /\ doc[1][2] = JsonValue("str", objs.abstract_analyser.name)
                /\ doc[2][2] = JsonValue("str", objs.abstract_analyser.research_topics)
                /\ doc[3][2].kind = "int" /\ doc[4][2].kind = "int"
                /\ doc[5][2] = JsonValue("float", <<FloatStr(env.flesch[1])>>)
                /\ doc[6][2].kind = "str"
                /\ doc[7][2] = JsonValue("list", glob.keyword_percentage[1])
                /\ \E tail \in {ListStr(doc[7][2].items)} :
                      \E report \in {glob.abstract_analysis[1]} :
                          SubSeq(report, Len(report) - Len(tail) + 1, Len(report)) = tail

C8_Witness ==
    /\ main = "done" /\ fs.files # {} /\ glob.user_format = "json"
    /\ Len(glob.keyword_percentage[1]) = TopK
    /\ "\"" \in CharsOf(objs.abstract_analyser.research_topics[1])

(***************************************************************************)
(* Properties of repeated classification.                                  *)
(***************************************************************************)
\* what a new analyzer returns for the table read last and the keywords
FreshResult ==
    IF Matching(Range(TopKeywords)) = {} THEN NoMatch
    ELSE LET j == CHOOSE j \in 1..Len(TopKeywords) :
                     /\ Matching({TopKeywords[j]}) # {}
                     /\ \A i \in 1..(j - 1) : Matching({TopKeywords[i]}) = {}
         IN  FirstInTable(Matching({TopKeywords[j]}))

\* C11: every call of abstract_topic_classification on an analyzer returns
\* what a new analyzer with the same abstract returns for the table read in
\* that call: nothing of an earlier call is held.
C11_NothingHeldAcrossCalls ==
    ret.fn = "abstract_topic_classification" /\ Classified =>
        ret.value = Str(FreshResult)

====
